---- MODULE Spec2Model ----
(***************************************************************************)
(* State-machine model of the two ink! voting contracts:                   *)
(*   src/voting/lib.rs                  (basic variant, prefix V_)         *)
(*   src/voting_with_contrains/lib.rs   (extended variant, prefix VWC_)    *)
(* One contract instance is deployed per behaviour; `variant` records      *)
(* which of the two contracts it is.  Messages run one at a time (the host *)
(* serialises invocations), so every message is one action.                *)
(***************************************************************************)
EXTENDS Integers, Sequences, FiniteSets, TLC

\* ---------------------------------------------------------------- bounds
\* Largest value of the unsigned counter type.  The contracts use u32; the
\* model keeps the width (every sum and difference is reduced modulo
\* U32Max + 1 or traps) but scales it so that the end of the range is
\* reached.
U32Max == 2
\* Longest candidate sequence handed to a constructor.
MaxCandidates == 2
\* Largest payment handed to buy_ticket.
MaxValue == 3
\* Largest quantity handed to the extended vote_candidate.
MaxAmout == 2
\* Number of vote events after which the extended variant is no longer
\* explored (the basic variant is explored until its counter has passed
\* the end of the range once).
MaxEvents == 2

\* ---------------------------------------------------------------- inputs
Accounts == {"alice", "bob"}
\* self.env().caller(): the contracts read the caller only to fill the
\* `from` field of the event; the one caller explored is the ticket owner
\* in some votes and a different account in others.
Callers == {"alice"}
CandidateLists == UNION {[1..n -> Accounts] : n \in 0..MaxCandidates}
TotalChoices == {0, U32Max}
PriceChoices == {0, 1, 2}
\* A build with overflow-checks traps on an overflowing +=/-=, a build
\* without them wraps; the build profile is not part of the sources.
OverflowChecks == BOOLEAN
\* The settings under which an invocation has to be explored: both when a
\* sum or difference in it leaves the range, one when none does.
Builds(overflow) == IF overflow THEN OverflowChecks ELSE {FALSE}
\* What the caller gets: an overflowing invocation traps under overflow
\* checks (and the host reverts its writes), otherwise it returns ret.
Outcome(ret, overflow, checks) == IF checks /\ overflow THEN "panic" ELSE ret

\* ---------------------------------------------------------------- state
VARIABLES
    phase,              \* "deploy" | "live" | "aborted" (constructor trapped)
    variant,            \* "none" | "basic" | "ext"
    votes_received,     \* StorageHashMap<AccountId, u32>
    candidate_list,     \* StorageVec<AccountId>
    in_candidate_list,  \* StorageHashMap<AccountId, ()>: its key set
    total_tokens,
    balance_tokens,
    token_price,
    vote_num,           \* StorageHashMap<(AccountId, AccountId), u32>
    voter_balance,      \* StorageHashMap<AccountId, u32>
    events,             \* VoteEvents emitted so far, oldest first
    last,               \* the last invocation: message, arguments, outcome
    lists_in,           \* the sequence handed to the constructor
    true_votes          \* per account, number of votes for it that returned true

store == <<votes_received, candidate_list, in_candidate_list, total_tokens,
           balance_tokens, token_price, vote_num, voter_balance>>
vars == <<phase, variant, votes_received, candidate_list, in_candidate_list,
          total_tokens, balance_tokens, token_price, vote_num, voter_balance,
          events, last, lists_in, true_votes>>

\* ---------------------------------------------------------------- helpers
\* StorageHashMap::default()
EmptyMap == [k \in {} |-> 0]
\* Faulty variant of Put: the map is rebuilt from the one entry written.
Put_Replace(m, k, v) == [x \in {k} |-> v]
\* HashMap::insert / the write half of entry()
Put(m, k, v) == [x \in (DOMAIN m) \cup {k} |-> IF x = k THEN v ELSE m[x]]
\* *map.get(&k).unwrap_or(&0)
GetOrZero(m, k) == IF k \in DOMAIN m THEN m[k] ELSE 0
\* the elements of a Vec
Range(s) == {s[i] : i \in 1..Len(s)}

\* u32 arithmetic: does the exact result leave the range, and what a
\* wrapping build stores.
Overflows(x) == x < 0 \/ x > U32Max
Wrap(x) == x % (U32Max + 1)

\* the record kept of an invocation
Call(op, caller, owner, candidate, n, ret, out) ==
    [op |-> op, caller |-> caller, owner |-> owner, candidate |-> candidate,
     n |-> n, ret |-> ret, out |-> out]
NoCall == Call("none", "-", "-", "-", 0, "-", <<>>)

Init ==
    /\ phase = "deploy"
    /\ variant = "none"
    /\ votes_received = EmptyMap
    /\ candidate_list = <<>>
    /\ in_candidate_list = {}
    /\ total_tokens = 0
    /\ balance_tokens = 0
    /\ token_price = 0
    /\ vote_num = EmptyMap
    /\ voter_balance = EmptyMap
    /\ events = <<>>
    /\ last = NoCall
    /\ lists_in = <<>>
    /\ true_votes = [a \in Accounts |-> 0]

\* ------------------------------------------------------------ constructors
\* lists.iter().copied().map(|x| (x, ())).collect(): the key set
CollectKeys(lists) == Range(lists)
\* Faulty variant of NewAssertion: the length assertion is missing.
NewAssertion_Skipped(lists) == TRUE
\* assert!(in_candidate_list.len() == candidate_list.len())
NewAssertion(lists) == Cardinality(CollectKeys(lists)) = Len(lists)

\* Voting::new of the basic contract
V_new(lists) ==
    /\ phase = "deploy"
    /\ lists_in' = lists
    /\ IF NewAssertion(lists)
       THEN /\ phase' = "live"
            /\ variant' = "basic"
            /\ candidate_list' = lists
            /\ in_candidate_list' = CollectKeys(lists)
            /\ votes_received' = EmptyMap
            /\ last' = Call("new", "-", "-", "-", 0, "ok", <<>>)
       ELSE /\ phase' = "aborted"
            /\ last' = Call("new", "-", "-", "-", 0, "panic", <<>>)
            /\ UNCHANGED <<variant, candidate_list, in_candidate_list, votes_received>>
    /\ UNCHANGED <<total_tokens, balance_tokens, token_price, vote_num,
                   voter_balance, events, true_votes>>

\* Faulty variant of VWC_new_balance_tokens: the remaining supply starts at 0.
VWC_new_balance_tokens_Zero(total) == 0
\* balance_tokens: total_tokens in the struct built by the constructor
VWC_new_balance_tokens(total) == total

\* Voting::new of the extended contract
VWC_new(lists, total, price) ==
    /\ phase = "deploy"
    /\ lists_in' = lists
    /\ IF NewAssertion(lists)
       THEN /\ phase' = "live"
            /\ variant' = "ext"
            /\ candidate_list' = lists
            /\ votes_received' = EmptyMap
            /\ in_candidate_list' = CollectKeys(lists)
            /\ total_tokens' = total
            /\ balance_tokens' = VWC_new_balance_tokens(total)
            /\ token_price' = price
            /\ vote_num' = EmptyMap
            /\ voter_balance' = EmptyMap
            /\ last' = Call("new", "-", "-", "-", 0, "ok", <<>>)
       ELSE /\ phase' = "aborted"
            /\ last' = Call("new", "-", "-", "-", 0, "panic", <<>>)
            /\ UNCHANGED <<variant, store>>
    /\ UNCHANGED <<events, true_votes>>

\* ------------------------------------------------------------ basic variant
\* my_value_or_zero (identical in both contracts)
my_value_or_zero(of) == GetOrZero(votes_received, of)

\* total_votes_for (identical in both contracts)
total_votes_for(candidate) == my_value_or_zero(candidate)

\* get_candidates_len and get_candidates (identical in both contracts)
get_candidates_len == Len(candidate_list)
get_candidates == candidate_list

\* Faulty variant of V_not_candidate: the membership test never rejects.
V_not_candidate_Never(candidate) == FALSE
\* !self.in_candidate_list.contains_key(&candidate), basic contract
V_not_candidate(candidate) == candidate \notin in_candidate_list

\* votes_received.entry(candidate).and_modify(|v| *v += 1).or_insert(1):
\* the exact value of the counter afterwards, before it is stored as a u32
V_tally_after(candidate) ==
    IF candidate \in DOMAIN votes_received THEN votes_received[candidate] + 1 ELSE 1

\* vote_candidate_without_event of the basic contract: the value returned,
\* the tally map it leaves, and whether the increment left the u32 range.
V_vote_candidate_without_event(candidate) ==
    IF V_not_candidate(candidate)
    THEN [ret |-> "false", overflow |-> FALSE, votes_received |-> votes_received]
    ELSE LET tally == V_tally_after(candidate) IN
         [ret |-> "true", overflow |-> Overflows(tally),
          votes_received |-> Put(votes_received, candidate, Wrap(tally))]

\* if ret { self.env().emit_event(VoteEvent { from: caller, to: candidate }) }
V_emit_event(ret, caller, candidate) ==
    IF ret = "true" THEN Append(events, [from |-> caller, to |-> candidate]) ELSE events

\* vote_candidate of the basic contract
V_vote_candidate(caller, candidate) ==
    /\ phase = "live" /\ variant = "basic"
    /\ Len(events) <= U32Max
    /\ LET r == V_vote_candidate_without_event(candidate) IN
       \E checks \in Builds(r.overflow) :
          LET ret == Outcome(r.ret, r.overflow, checks) IN
          /\ votes_received' = IF ret = "panic" THEN votes_received ELSE r.votes_received
          /\ events' = V_emit_event(ret, caller, candidate)
          /\ true_votes' = IF ret = "true"
                           THEN [true_votes EXCEPT ![candidate] = @ + 1]
                           ELSE true_votes
          /\ last' = Call("vote_candidate", caller, "-", candidate, 1, ret, <<>>)
    /\ UNCHANGED <<phase, variant, candidate_list, in_candidate_list, total_tokens,
                   balance_tokens, token_price, vote_num, voter_balance, lists_in>>

\* get_current_votes of the basic contract: the loop pushes one counter per
\* element of the copied candidate list.
RECURSIVE V_current_vote_loop(_, _)
V_current_vote_loop(rest, current_vote) ==
    IF rest = <<>> THEN current_vote
    ELSE V_current_vote_loop(Tail(rest), Append(current_vote, my_value_or_zero(Head(rest))))

\* Faulty variant of V_current_votes: the counters are collected in the
\* opposite order to the candidate list they are paired with.
V_current_votes_Reversed ==
    LET cv == V_current_vote_loop(candidate_list, <<>>) IN
    [candidate_list |-> candidate_list,
     current_vote |-> [i \in 1..Len(cv) |-> cv[Len(cv) + 1 - i]]]

V_current_votes ==
    [candidate_list |-> candidate_list,
     current_vote |-> V_current_vote_loop(candidate_list, <<>>)]

V_get_current_votes ==
    /\ phase = "live" /\ variant = "basic"
    /\ last' = Call("get_current_votes", "-", "-", "-", 0, "ok", V_current_votes)
    /\ UNCHANGED <<phase, variant, store, events, lists_in, true_votes>>

\* --------------------------------------------------------- extended variant
\* all_ticket_num, left_ticket_num, price_of_ticket
all_ticket_num == total_tokens
left_ticket_num == balance_tokens
price_of_ticket == token_price

\* voter_ticket_balance
voter_ticket_balance(owner) == GetOrZero(voter_balance, owner)

\* callee_vote_of
callee_vote_of(callee, candidate) == GetOrZero(vote_num, <<callee, candidate>>)

\* Faulty variant of buy_amount: the payment is taken as the quantity.
buy_amount_IgnoresPrice(value) == value
\* let amount = value / self.token_price (token_price is not 0 here)
buy_amount(value) == value \div token_price


\* Faulty variant of buy_rejects: the supply check is missing.
buy_rejects_Never(amount) == FALSE
\* Faulty variant of buy_rejects: the supply check is off by one.
buy_rejects_OffByOne(amount) == amount > balance_tokens + 1
\* if amount > self.balance_tokens { return false; }
buy_rejects(amount) == amount > balance_tokens

\* insert(owner, amount) for a new owner, and_modify(|v| *v += amount) for a
\* known one: the exact balance afterwards
buy_balance_after(owner, amount) ==
    IF owner \notin DOMAIN voter_balance THEN amount ELSE voter_balance[owner] + amount

\* buy_ticket: the value returned, the balance map and remaining supply it
\* leaves, and whether a sum or difference left the u32 range.  A division
\* by zero traps in every build.
buy_ticket_result(owner, value) ==
    LET same == [overflow |-> FALSE, voter_balance |-> voter_balance,
                 balance_tokens |-> balance_tokens] IN
    IF token_price = 0
    THEN [ret |-> "panic"] @@ same
    ELSE LET amount == buy_amount(value) IN
         IF buy_rejects(amount)
         THEN [ret |-> "false"] @@ same
         ELSE LET bal == buy_balance_after(owner, amount)
                  left == balance_tokens - amount
              IN [ret |-> "true",
                  overflow |-> Overflows(bal) \/ Overflows(left),
                  voter_balance |-> Put(voter_balance, owner, Wrap(bal)),
                  balance_tokens |-> Wrap(left)]

buy_ticket(owner, value) ==
    /\ phase = "live" /\ variant = "ext"
    /\ LET r == buy_ticket_result(owner, value) IN
       \E checks \in Builds(r.overflow) :
          LET ret == Outcome(r.ret, r.overflow, checks) IN
          /\ voter_balance' = IF ret = "panic" THEN voter_balance ELSE r.voter_balance
          /\ balance_tokens' = IF ret = "panic" THEN balance_tokens ELSE r.balance_tokens
          /\ last' = Call("buy_ticket", "-", owner, "-", value, ret, <<>>)
    /\ UNCHANGED <<phase, variant, votes_received, candidate_list, in_candidate_list,
                   total_tokens, token_price, vote_num, events, lists_in, true_votes>>

\* Faulty variant of VWC_not_candidate: the membership test never rejects.
VWC_not_candidate_Never(candidate) == FALSE
\* !self.in_candidate_list.contains_key(&candidate), extended contract
VWC_not_candidate(candidate) == candidate \notin in_candidate_list

\* Faulty variant of not_enough_tickets: a balance equal to the quantity is
\* refused as well.
not_enough_tickets_Strict(ticket_num, amout) == ticket_num <= amout
\* Faulty variant of not_enough_tickets: the balance check is missing.
not_enough_tickets_Never(ticket_num, amout) == FALSE
\* if ticket_num < amout { return false; }
not_enough_tickets(ticket_num, amout) == ticket_num < amout

\* Faulty variant of VWC_balance_after: the owner is not debited.
VWC_balance_after_NoDebit(owner, amout) ==
    IF owner \in DOMAIN voter_balance THEN voter_balance[owner] ELSE 0
\* voter_balance.entry(owner).and_modify(|v| *v -= amout): the exact balance
\* afterwards; a vacant entry is left vacant
VWC_balance_after(owner, amout) ==
    IF owner \in DOMAIN voter_balance THEN voter_balance[owner] - amout ELSE 0

\* Faulty variant of VWC_pair_after: the pair count is overwritten, not added to.
VWC_pair_after_Overwrite(owner, candidate, amout) == amout
\* vote_num.entry((owner, candidate)).and_modify(|v| *v += amout).or_insert(amout)
VWC_pair_after(owner, candidate, amout) ==
    IF <<owner, candidate>> \in DOMAIN vote_num
    THEN vote_num[<<owner, candidate>>] + amout
    ELSE amout

\* Faulty variant of VWC_tally_after: the tally is overwritten, not added to.
VWC_tally_after_Overwrite(candidate, amout) == amout
\* votes_received.entry(candidate).and_modify(|v| *v += amout).or_insert(amout)
VWC_tally_after(candidate, amout) ==
    IF candidate \in DOMAIN votes_received THEN votes_received[candidate] + amout ELSE amout

\* vote_candidate_without_event of the extended contract: the value
\* returned, the maps it leaves, and whether a sum or difference left the
\* u32 range.
VWC_vote_candidate_without_event(owner, candidate, amout) ==
    LET same == [overflow |-> FALSE, voter_balance |-> voter_balance,
                 vote_num |-> vote_num, votes_received |-> votes_received] IN
    IF VWC_not_candidate(candidate)
    THEN [ret |-> "false"] @@ same
    ELSE LET ticket_num == voter_ticket_balance(owner) IN
         IF not_enough_tickets(ticket_num, amout)
         THEN [ret |-> "false"] @@ same
         ELSE LET bal == VWC_balance_after(owner, amout)
                  pair == VWC_pair_after(owner, candidate, amout)
                  tally == VWC_tally_after(candidate, amout)
              IN [ret |-> "true",
                  overflow |-> Overflows(bal) \/ Overflows(pair) \/ Overflows(tally),
                  voter_balance |-> IF owner \in DOMAIN voter_balance
                                    THEN Put(voter_balance, owner, Wrap(bal))
                                    ELSE voter_balance,
                  vote_num |-> Put(vote_num, <<owner, candidate>>, Wrap(pair)),
                  votes_received |-> Put(votes_received, candidate, Wrap(tally))]

\* Faulty variant of VWC_vote_candidate_call: a caller who is not the owner
\* is refused.
VWC_vote_candidate_call_OwnerOnly(caller, owner, candidate, amout) ==
    IF caller = owner
    THEN VWC_vote_candidate_without_event(owner, candidate, amout)
    ELSE [ret |-> "false", overflow |-> FALSE, voter_balance |-> voter_balance,
          vote_num |-> vote_num, votes_received |-> votes_received]
\* let ret = self.vote_candidate_without_event(owner, candidate, amout) in
\* vote_candidate: the caller is not handed on
VWC_vote_candidate_call(caller, owner, candidate, amout) ==
    VWC_vote_candidate_without_event(owner, candidate, amout)

\* Faulty variant of VWC_emit_event: the event is emitted whatever ret is.
VWC_emit_event_Always(ret, caller, candidate) ==
    Append(events, [from |-> caller, to |-> candidate])
\* if ret { self.env().emit_event(VoteEvent { from: caller, to: candidate }) }
VWC_emit_event(ret, caller, candidate) ==
    IF ret = "true" THEN Append(events, [from |-> caller, to |-> candidate]) ELSE events

\* vote_candidate of the extended contract
VWC_vote_candidate(caller, owner, candidate, amout) ==
    /\ phase = "live" /\ variant = "ext"
    /\ Len(events) < MaxEvents
    /\ LET r == VWC_vote_candidate_call(caller, owner, candidate, amout) IN
       \E checks \in Builds(r.overflow) :
          LET ret == Outcome(r.ret, r.overflow, checks) IN
          /\ voter_balance' = IF ret = "panic" THEN voter_balance ELSE r.voter_balance
          /\ vote_num' = IF ret = "panic" THEN vote_num ELSE r.vote_num
          /\ votes_received' = IF ret = "panic" THEN votes_received ELSE r.votes_received
          /\ events' = VWC_emit_event(ret, caller, candidate)
          /\ true_votes' = IF ret = "true"
                           THEN [true_votes EXCEPT ![candidate] = @ + 1]
                           ELSE true_votes
          /\ last' = Call("vote_candidate", caller, owner, candidate, amout, ret, <<>>)
    /\ UNCHANGED <<phase, variant, candidate_list, in_candidate_list, total_tokens,
                   balance_tokens, token_price, lists_in>>

\* get_current_votes of the extended contract
RECURSIVE VWC_current_vote_loop(_, _)
VWC_current_vote_loop(rest, current_vote) ==
    IF rest = <<>> THEN current_vote
    ELSE VWC_current_vote_loop(Tail(rest),
             Append(current_vote,
                    [candidate |-> Head(rest), vote |-> my_value_or_zero(Head(rest))]))

VWC_current_votes == VWC_current_vote_loop(candidate_list, <<>>)

VWC_get_current_votes ==
    /\ phase = "live" /\ variant = "ext"
    /\ last' = Call("get_current_votes", "-", "-", "-", 0, "ok", VWC_current_votes)
    /\ UNCHANGED <<phase, variant, store, events, lists_in, true_votes>>

\* ------------------------------------------------------------ read messages
\* A message that only returns a value: the invocation is recorded and the
\* storage of the contract, the event log and the constructor input stay.
ReadMsg(v, op, owner, candidate, out) ==
    /\ phase = "live" /\ variant = v
    /\ last' = Call(op, "-", owner, candidate, 0, "ok", out)
    /\ UNCHANGED <<phase, variant, events, lists_in, true_votes>>

\* get_candidates_len, get_candidates, total_votes_for of the basic contract
V_get_candidates_len ==
    ReadMsg("basic", "get_candidates_len", "-", "-", get_candidates_len)
    /\ UNCHANGED store
V_get_candidates ==
    ReadMsg("basic", "get_candidates", "-", "-", get_candidates)
    /\ UNCHANGED store
V_total_votes_for(candidate) ==
    ReadMsg("basic", "total_votes_for", "-", candidate, total_votes_for(candidate))
    /\ UNCHANGED store

\* the same three messages of the extended contract
VWC_get_candidates_len ==
    ReadMsg("ext", "get_candidates_len", "-", "-", get_candidates_len)
    /\ UNCHANGED store
VWC_get_candidates ==
    ReadMsg("ext", "get_candidates", "-", "-", get_candidates)
    /\ UNCHANGED store
VWC_total_votes_for(candidate) ==
    ReadMsg("ext", "total_votes_for", "-", candidate, total_votes_for(candidate))
    /\ UNCHANGED store

\* all_ticket_num, left_ticket_num, price_of_ticket as messages
all_ticket_num_msg ==
    ReadMsg("ext", "all_ticket_num", "-", "-", all_ticket_num) /\ UNCHANGED store
left_ticket_num_msg ==
    ReadMsg("ext", "left_ticket_num", "-", "-", left_ticket_num) /\ UNCHANGED store
price_of_ticket_msg ==
    ReadMsg("ext", "price_of_ticket", "-", "-", price_of_ticket) /\ UNCHANGED store

\* Faulty variant of voter_balance_after_get: the lookup goes through
\* entry(owner).or_insert(0) and leaves an entry behind.
voter_balance_after_get_Inserts(owner) ==
    Put(voter_balance, owner, GetOrZero(voter_balance, owner))
\* self.voter_balance.get(&owner): the balance map after the lookup
voter_balance_after_get(owner) == voter_balance

\* voter_ticket_balance as a message
voter_ticket_balance_msg(owner) ==
    /\ ReadMsg("ext", "voter_ticket_balance", owner, "-", voter_ticket_balance(owner))
    /\ voter_balance' = voter_balance_after_get(owner)
    /\ UNCHANGED <<votes_received, candidate_list, in_candidate_list, total_tokens,
                   balance_tokens, token_price, vote_num>>

\* callee_vote_of as a message
callee_vote_of_msg(callee, candidate) ==
    ReadMsg("ext", "callee_vote_of", callee, candidate, callee_vote_of(callee, candidate))
    /\ UNCHANGED store

\* ---------------------------------------------------------------- behaviour
\* The constructors, the writing messages and the tally snapshot.
Next ==
    \/ \E lists \in CandidateLists : V_new(lists)
    \/ \E lists \in CandidateLists, total \in TotalChoices, price \in PriceChoices :
          VWC_new(lists, total, price)
    \/ \E caller \in Callers, candidate \in Accounts :
          V_vote_candidate(caller, candidate)
    \/ V_get_current_votes
    \/ \E owner \in Accounts, value \in 0..MaxValue : buy_ticket(owner, value)
    \/ \E caller \in Callers, owner \in Accounts, candidate \in Accounts,
          amout \in 0..MaxAmout :
          VWC_vote_candidate(caller, owner, candidate, amout)
    \/ VWC_get_current_votes

Spec == Init /\ [][Next]_vars

\* The same with every other read message interleaved.
NextReads ==
    \/ Next
    \/ V_get_candidates_len
    \/ V_get_candidates
    \/ \E candidate \in Accounts : V_total_votes_for(candidate)
    \/ VWC_get_candidates_len
    \/ VWC_get_candidates
    \/ \E candidate \in Accounts : VWC_total_votes_for(candidate)
    \/ all_ticket_num_msg
    \/ left_ticket_num_msg
    \/ price_of_ticket_msg
    \/ \E owner \in Accounts : voter_ticket_balance_msg(owner)
    \/ \E callee \in Accounts, candidate \in Accounts :
          callee_vote_of_msg(callee, candidate)

SpecReads == Init /\ [][NextReads]_vars

TypeOK ==
    /\ phase \in {"deploy", "live", "aborted"}
    /\ variant \in {"none", "basic", "ext"}
    /\ last.ret \in {"-", "ok", "true", "false", "panic"}

\* ------------------------------------------------------------------ claims
\* The step just taken was an invocation of message `op` on contract `v`.
Invoked(v, op) == variant' = v /\ last'.op = op
\* What the read accessors return after the step.
balance_now(a) == GetOrZero(voter_balance', a)
pair_now(a, b) == GetOrZero(vote_num', <<a, b>>)
tally_now(a) == GetOrZero(votes_received', a)

\* C1: in the extended contract a vote_candidate(owner, candidate, amout)
\* that returns true lowers the owner's ticket balance by exactly amout,
\* raises the (owner, candidate) pair count by exactly amout and raises the
\* candidate's tally by exactly amout, all in the one step.
C1_CastVoteMovesExactlyQ ==
    [][(Invoked("ext", "vote_candidate") /\ last'.ret = "true") =>
        LET v == last'.owner
            c == last'.candidate
            q == last'.n
        IN /\ balance_now(v) = voter_ticket_balance(v) - q
           /\ pair_now(v, c) = callee_vote_of(v, c) + q
           /\ tally_now(c) = total_votes_for(c) + q]_vars

\* C1 witness: a successful vote of a positive quantity has just been cast
\* and the pair count and the tally show it.
C1_Witness ==
    /\ variant = "ext" /\ last.op = "vote_candidate" /\ last.ret = "true"
    /\ last.n > 0
    /\ callee_vote_of(last.owner, last.candidate) >= last.n
    /\ total_votes_for(last.candidate) >= last.n

\* C2: in the extended contract vote_candidate returns false whenever the
\* candidate is not in the candidate list or the owner's balance is below
\* the quantity, and then every balance, pair count, tally and the
\* remaining supply are what they were before the call.
C2_CastVoteRejects ==
    [][(/\ Invoked("ext", "vote_candidate")
        /\ \/ last'.candidate \notin Range(candidate_list)
           \/ voter_ticket_balance(last'.owner) < last'.n) =>
        /\ last'.ret = "false"
        /\ \A a \in Accounts : balance_now(a) = voter_ticket_balance(a)
        /\ \A a, b \in Accounts : pair_now(a, b) = callee_vote_of(a, b)
        /\ \A a \in Accounts : tally_now(a) = total_votes_for(a)
        /\ left_ticket_num' = left_ticket_num]_vars

\* C2 witness: a vote for a registered candidate has just been refused for
\* lack of tickets although the owner holds some.
C2_Witness ==
    /\ variant = "ext" /\ last.op = "vote_candidate" /\ last.ret = "false"
    /\ last.candidate \in Range(candidate_list)
    /\ voter_ticket_balance(last.owner) > 0
    /\ voter_ticket_balance(last.owner) < last.n

\* C3: with a non-zero unit price and quantity = floor(value / price) not
\* above the remaining supply, buy_ticket returns true, raises the owner's
\* balance by exactly quantity and lowers the remaining supply by exactly
\* quantity; a value below the price gives quantity 0, true, and no change.
C3_BuyMovesExactlyQuantity ==
    [][(/\ Invoked("ext", "buy_ticket")
        /\ token_price > 0
        /\ (last'.n \div token_price) <= left_ticket_num) =>
        LET b == last'.owner
            quantity == last'.n \div token_price
        IN /\ last'.ret = "true"
           /\ balance_now(b) = voter_ticket_balance(b) + quantity
           /\ left_ticket_num' = left_ticket_num - quantity
           /\ last'.n < token_price =>
                 /\ quantity = 0
                 /\ balance_now(b) = voter_ticket_balance(b)
                 /\ left_ticket_num' = left_ticket_num]_vars

\* C3 witness: an account that is not a candidate has just bought with a
\* payment that is not a multiple of the price, and holds the tickets.
C3_Witness ==
    /\ variant = "ext" /\ last.op = "buy_ticket" /\ last.ret = "true"
    /\ token_price = 2 /\ last.n = 3
    /\ last.owner \notin Range(candidate_list)
    /\ voter_ticket_balance(last.owner) >= 1
    /\ left_ticket_num < all_ticket_num

\* C4: buy_ticket returns false when floor(value / price) exceeds the
\* remaining supply, and then every balance, the remaining supply, every
\* tally and every pair count are unchanged.
C4_BuyRejects ==
    [][(/\ Invoked("ext", "buy_ticket")
        /\ token_price > 0
        /\ (last'.n \div token_price) > left_ticket_num) =>
        /\ last'.ret = "false"
        /\ \A a \in Accounts : balance_now(a) = voter_ticket_balance(a)
        /\ left_ticket_num' = left_ticket_num
        /\ \A a \in Accounts : tally_now(a) = total_votes_for(a)
        /\ \A a, b \in Accounts : pair_now(a, b) = callee_vote_of(a, b)]_vars

\* C4 witness: a purchase has just been refused while some supply was left.
C4_Witness ==
    /\ variant = "ext" /\ last.op = "buy_ticket" /\ last.ret = "false"
    /\ token_price > 0
    /\ left_ticket_num > 0
    /\ (last.n \div token_price) > left_ticket_num

\* C5: in the basic contract a vote for an account that is not in the
\* candidate list returns false and leaves the tally of every account as
\* it was.
C5_VoteNonCandidate ==
    [][(/\ Invoked("basic", "vote_candidate")
        /\ last'.candidate \notin Range(candidate_list)) =>
        /\ last'.ret = "false"
        /\ \A a \in Accounts : tally_now(a) = total_votes_for(a)]_vars

\* C5 witness: a vote for a non-candidate has just been refused after a
\* candidate had received votes.
C5_Witness ==
    /\ variant = "basic" /\ last.op = "vote_candidate" /\ last.ret = "false"
    /\ last.candidate \notin Range(candidate_list)
    /\ \E a \in Accounts : total_votes_for(a) > 0

\* C6: in the basic contract, after N votes for a registered candidate have
\* returned true since construction, its tally is exactly N, for every N.
C6_TallyIsVoteCount ==
    variant = "basic" =>
        \A c \in Range(candidate_list) : total_votes_for(c) = true_votes[c]

\* C7: in both contracts the number of emitted vote events equals the number
\* of votes that returned true; a vote that returns true emits exactly one
\* event, from the caller to the candidate, and no other invocation emits.
SumTrueVotes == true_votes["alice"] + true_votes["bob"]
C7_EventStep ==
    IF last'.op = "vote_candidate" /\ last'.ret = "true"
    THEN events' = Append(events, [from |-> last'.caller, to |-> last'.candidate])
    ELSE events' = events
C7_OneEventPerTrueVote ==
    /\ [](Len(events) = SumTrueVotes)
    /\ [][C7_EventStep]_vars

\* C7 witness: two events are on record, the later one emitted by a caller
\* who is not the account whose tickets were spent.
C7_Witness ==
    /\ variant = "ext" /\ last.op = "vote_candidate" /\ last.ret = "true"
    /\ last.caller # last.owner
    /\ Len(events) = 2
    /\ events[2] = [from |-> last.caller, to |-> last.candidate]

\* C8: in both contracts get_current_votes returns one entry per candidate,
\* in the order given to the constructor, and the count at position i is
\* the tally of the i-th candidate (0 if it has never been voted for).
C8_CurrentVotesInOrder ==
    last.op = "get_current_votes" =>
        IF variant = "basic"
        THEN /\ last.out.candidate_list = lists_in
             /\ Len(last.out.current_vote) = Len(lists_in)
             /\ \A i \in 1..Len(lists_in) :
                   last.out.current_vote[i] = total_votes_for(lists_in[i])
        ELSE /\ Len(last.out) = Len(lists_in)
             /\ \A i \in 1..Len(lists_in) :
                   /\ last.out[i].candidate = lists_in[i]
                   /\ last.out[i].vote = total_votes_for(lists_in[i])

\* C8 witness: a snapshot of two candidates has just been returned in which
\* the second has votes and the first has none.
C8_Witness ==
    /\ variant = "basic" /\ last.op = "get_current_votes"
    /\ Len(lists_in) = 2
    /\ last.out.current_vote[1] = 0
    /\ last.out.current_vote[2] > 0

\* C9: a constructor given a sequence with a duplicate aborts and creates
\* no instance; given a duplicate-free sequence (the empty one included) it
\* succeeds, the candidate count is the input length, the candidate list is
\* the input sequence and exactly the listed accounts are members.
HasDuplicate(s) == \E i, j \in 1..Len(s) : i # j /\ s[i] = s[j]
C9_Construction ==
    phase # "deploy" =>
        IF HasDuplicate(lists_in)
        THEN /\ phase = "aborted"
             /\ variant = "none"
             /\ candidate_list = <<>> /\ in_candidate_list = {}
        ELSE /\ phase = "live"
             /\ get_candidates_len = Len(lists_in)
             /\ get_candidates = lists_in
             /\ \A a \in Accounts :
                   ~V_not_candidate(a) <=> (\E i \in 1..Len(lists_in) : lists_in[i] = a)

\* C9 witness: a constructor has just aborted on a sequence that names the
\* same account twice.
C9_Witness ==
    /\ last.op = "new" /\ last.ret = "panic"
    /\ Len(lists_in) = 2 /\ lists_in[1] = lists_in[2]

\* C10: once a constructor has succeeded, every invocation of vote_candidate
\* and buy_ticket completes and returns a boolean; none aborts.
C10_NoOperationAborts ==
    phase = "live" => last.ret # "panic"

\* C11: in the extended contract every voter balance, pair count, tally
\* and the remaining supply lie in 0..total_tokens in every reachable
\* state, and no subtraction in buy_ticket or vote_candidate underflows and
\* no addition overflows the unsigned range, whatever the arguments.
C11_CountersInRange ==
    (phase = "live" /\ variant = "ext") =>
        /\ total_tokens \in 0..U32Max
        /\ left_ticket_num \in 0..total_tokens
        /\ \A a \in Accounts : voter_ticket_balance(a) \in 0..total_tokens
        /\ \A a \in Accounts : total_votes_for(a) \in 0..total_tokens
        /\ \A a, b \in Accounts : callee_vote_of(a, b) \in 0..total_tokens
        /\ \A a \in Accounts, value \in 0..MaxValue :
              ~buy_ticket_result(a, value).overflow
        /\ \A a, b \in Accounts, q \in 0..MaxAmout :
              ~VWC_vote_candidate_without_event(a, b, q).overflow

\* C11 witness: the whole supply, as large as the counter type allows, has
\* been bought and cast for one candidate.
C11_Witness ==
    /\ variant = "ext" /\ total_tokens = U32Max
    /\ left_ticket_num = 0
    /\ \E a \in Accounts : total_votes_for(a) = U32Max

\* C12: the remaining supply equals the total right after construction and
\* never increases; only a buy_ticket that returns true lowers it, votes
\* and reads leave it, and the total and the unit price never change.
C12_SupplyStep ==
    /\ (last'.op = "new" /\ last'.ret = "ok" /\ variant' = "ext") =>
          left_ticket_num' = all_ticket_num'
    /\ (phase = "live" /\ variant = "ext") =>
          /\ left_ticket_num' <= left_ticket_num
          /\ left_ticket_num' # left_ticket_num =>
                (last'.op = "buy_ticket" /\ last'.ret = "true")
          /\ all_ticket_num' = all_ticket_num
          /\ price_of_ticket' = price_of_ticket
C12_SupplyNeverIncreases == [][C12_SupplyStep]_vars

\* C12 witness: after a purchase and a vote the remaining supply has just
\* been read and is below the total.
C12_Witness ==
    /\ variant = "ext" /\ last.op = "left_ticket_num"
    /\ last.out = left_ticket_num
    /\ last.out < all_ticket_num
    /\ events # <<>>

\* C13: along any sequence of invocations no tally (either contract) and no
\* pair count (extended contract) is lower after a step than before it.
C13_CountersNeverDecrease ==
    [][/\ \A a \in Accounts : tally_now(a) >= total_votes_for(a)
       /\ \A a, b \in Accounts : pair_now(a, b) >= callee_vote_of(a, b)]_vars

\* C14: an account outside the candidate list never gets a tally entry or
\* a pair-count entry and every vote for it returns false; a candidate has
\* a tally entry exactly from the first vote for it that returns true; a
\* tally entry, once there, stays, and the candidate list never changes.
C14_Inv ==
    phase = "live" =>
        /\ DOMAIN votes_received \subseteq Range(lists_in)
        /\ \A k \in DOMAIN vote_num : k[2] \in Range(lists_in)
        /\ \A a \in Accounts : a \in DOMAIN votes_received <=> true_votes[a] > 0
C14_Step ==
    phase = "live" =>
        /\ candidate_list' = candidate_list
        /\ in_candidate_list' = in_candidate_list
        /\ DOMAIN votes_received \subseteq DOMAIN votes_received'
        /\ (last'.op = "vote_candidate" /\ last'.candidate \notin Range(candidate_list))
              => last'.ret = "false"
C14_CandidateStates == []C14_Inv /\ [][C14_Step]_vars

\* C14 witness: in the extended contract one candidate has a tally entry,
\* and a vote for an account outside the list has just been refused.
C14_Witness ==
    /\ variant = "ext" /\ last.op = "vote_candidate" /\ last.ret = "false"
    /\ last.candidate \notin Range(candidate_list)
    /\ DOMAIN votes_received # {}
    /\ last.candidate \notin DOMAIN votes_received

\* C15: from one state, the extended vote_candidate(owner, candidate, amout)
\* invoked by two different callers returns the same value and leaves the
\* same balances, pair counts and tallies (the remaining supply is not
\* touched); the two runs differ only in the `from` field of the event.
C15_CallerIndependent ==
    (phase = "live" /\ variant = "ext") =>
        \A c1 \in Callers, c2 \in Accounts \ Callers :
        \A o \in Accounts, c \in Accounts, q \in 0..MaxAmout :
            LET r1 == VWC_vote_candidate_call(c1, o, c, q)
                r2 == VWC_vote_candidate_call(c2, o, c, q)
                e1 == VWC_emit_event(r1.ret, c1, c)
                e2 == VWC_emit_event(r2.ret, c2, c)
            IN /\ r1 = r2
               /\ Len(e1) = Len(e2)
               /\ r1.ret = "true" =>
                     /\ e1 = Append(events, [from |-> c1, to |-> c])
                     /\ e2 = Append(events, [from |-> c2, to |-> c])

\* C15 witness: a caller has just spent tickets of an owner who is another
\* account.
C15_Witness ==
    /\ variant = "ext" /\ last.op = "vote_candidate" /\ last.ret = "true"
    /\ last.n > 0
    /\ last.caller # last.owner
    /\ callee_vote_of(last.owner, last.candidate) >= last.n

\* C16: every read message leaves the storage and the event log as they
\* were, in any state and for any argument, accounts without an entry
\* included.
ReadOps ==
    {"get_candidates_len", "get_candidates", "get_current_votes", "total_votes_for",
     "all_ticket_num", "left_ticket_num", "price_of_ticket", "voter_ticket_balance",
     "callee_vote_of"}
C16_ReadsChangeNothing ==
    [][last'.op \in ReadOps =>
          /\ store' = store
          /\ events' = events
          /\ phase' = phase /\ variant' = variant]_vars

\* C16 witness: the balance of an account without an entry has just been
\* read as 0 while another account holds tickets, and no entry was made.
C16_Witness ==
    /\ variant = "ext" /\ last.op = "voter_ticket_balance"
    /\ last.owner \notin DOMAIN voter_balance
    /\ last.out = 0
    /\ \E a \in Accounts : voter_ticket_balance(a) > 0

\* The maps after and before agree on every key outside `keys`, entry for
\* entry.
SameExcept(after, before, keys) ==
    \A k \in ((DOMAIN after) \cup (DOMAIN before)) \ keys :
        /\ k \in DOMAIN after /\ k \in DOMAIN before
        /\ after[k] = before[k]

\* C17: a write that returns true changes only the entries it names: the
\* basic vote only the candidate's tally; buy_ticket only the owner's
\* balance and the remaining supply; the extended vote only the owner's
\* balance, the (owner, candidate) pair count and the candidate's tally;
\* no message changes the candidate list or the membership set.
C17_Step ==
    /\ phase = "live" =>
          /\ candidate_list' = candidate_list
          /\ in_candidate_list' = in_candidate_list
    /\ (Invoked("basic", "vote_candidate") /\ last'.ret = "true") =>
          SameExcept(votes_received', votes_received, {last'.candidate})
    /\ (Invoked("ext", "buy_ticket") /\ last'.ret = "true") =>
          /\ SameExcept(voter_balance', voter_balance, {last'.owner})
          /\ votes_received' = votes_received
          /\ vote_num' = vote_num
    /\ (Invoked("ext", "vote_candidate") /\ last'.ret = "true") =>
          /\ SameExcept(voter_balance', voter_balance, {last'.owner})
          /\ SameExcept(vote_num', vote_num, {<<last'.owner, last'.candidate>>})
          /\ SameExcept(votes_received', votes_received, {last'.candidate})
          /\ left_ticket_num' = left_ticket_num
C17_WritesTouchOnlyNamedEntries == [][C17_Step]_vars

\* C17 witness: an owner has just cast a vote while another account holds
\* tickets of its own.
C17_Witness ==
    /\ variant = "ext" /\ last.op = "vote_candidate" /\ last.ret = "true"
    /\ last.n > 0
    /\ \E a \in Accounts \ {last.owner} : voter_ticket_balance(a) > 0

\* The sum of the values of a map.
RECURSIVE SumFn(_)
SumFn(f) ==
    IF DOMAIN f = {} THEN 0
    ELSE LET k == CHOOSE x \in DOMAIN f : TRUE
         IN f[k] + SumFn([x \in (DOMAIN f) \ {k} |-> f[x]])

\* C18: in the extended contract, in every reachable state, remaining
\* supply + all voter balances + all tallies = total_tokens, so the votes
\* cast never exceed total_tokens.
C18_TicketConservation ==
    (phase = "live" /\ variant = "ext") =>
        /\ left_ticket_num + SumFn(voter_balance) + SumFn(votes_received) = all_ticket_num
        /\ SumFn(votes_received) <= all_ticket_num

\* C18 witness: part of the supply is held by a voter and part has been
\* cast.
C18_Witness ==
    /\ variant = "ext"
    /\ SumFn(voter_balance) > 0
    /\ SumFn(votes_received) > 0

\* C19: in the extended contract, in every reachable state, the tally of
\* every candidate is the sum over all voters of the pair counts for it,
\* and every pair count for an account that is not a candidate is 0.
C19_LedgerConsistency ==
    (phase = "live" /\ variant = "ext") =>
        /\ \A c \in Range(candidate_list) :
              total_votes_for(c) = SumFn([v \in Accounts |-> callee_vote_of(v, c)])
        /\ \A v \in Accounts, x \in Accounts \ Range(candidate_list) :
              callee_vote_of(v, x) = 0

\* C19 witness: one candidate has votes from two different voters.
C19_Witness ==
    /\ variant = "ext"
    /\ \E c \in Range(candidate_list) :
          \A v \in Accounts : callee_vote_of(v, c) > 0

\* C20: in the extended contract vote_candidate(owner, candidate, 0) for a
\* registered candidate returns true for every owner, one that never bought
\* included, emits one event, and leaves every balance, pair count, tally
\* and the remaining supply as read through the accessors unchanged.
C20_ZeroVoteSucceeds ==
    [][(/\ Invoked("ext", "vote_candidate")
        /\ last'.n = 0
        /\ last'.candidate \in Range(candidate_list)) =>
        /\ last'.ret = "true"
        /\ events' = Append(events, [from |-> last'.caller, to |-> last'.candidate])
        /\ \A a \in Accounts : balance_now(a) = voter_ticket_balance(a)
        /\ \A a, b \in Accounts : pair_now(a, b) = callee_vote_of(a, b)
        /\ \A a \in Accounts : tally_now(a) = total_votes_for(a)
        /\ left_ticket_num' = left_ticket_num]_vars

\* C20 witness: an owner without a balance entry has just cast 0 votes and
\* the event is on record.
C20_Witness ==
    /\ variant = "ext" /\ last.op = "vote_candidate" /\ last.ret = "true"
    /\ last.n = 0
    /\ last.owner \notin DOMAIN voter_balance
    /\ <<last.owner, last.candidate>> \in DOMAIN vote_num
    /\ events # <<>>
====
